---- MODULE Spec2Model ----
(***************************************************************************)
(* Model of src/parser/mod.rs: the Markdown flavor registry (Flavor and    *)
(* its three methods), ParseConfig::new and extract_ast, together with the *)
(* file system the call reads and the arenas it allocates into.            *)
(*                                                                         *)
(* Two specifications:                                                     *)
(*   SpecRegistry  the pure functions of Flavor applied to drawn inputs;   *)
(*   Spec          callers building ParseConfigs and running extract_ast   *)
(*                 on several threads while files are written and removed. *)
(***************************************************************************)
EXTENDS Naturals, Sequences, FiniteSets, Bags

VARIABLES
    reg,            \* inputs and results of the Flavor methods (SpecRegistry)
    files,          \* the file system: path -> file state
    configs,        \* the ParseConfig values built so far
    requested,      \* history: the arguments each ParseConfig::new was given
    pc,             \* per thread: position in its extract_ast call
    cfg,            \* per thread: index of the &ParseConfig it was passed
    md,             \* per thread: the local `md` of extract_ast
    result,         \* per thread: what the call returned
    arena,          \* per thread: the Arena it owns (nodes in allocation order)
    snapshot,       \* history: the file state the thread's read saw
    arenaAtStart,   \* history: the thread's arena when the call began
    reads,          \* history: reads of the file made by the current call
    parses,         \* history: parse_document invocations of the current call
    ncalls,         \* number of extract_ast calls begun so far
    log             \* history: (flavor, content, tree) of every successful call

vars == <<reg, files, configs, requested, pc, cfg, md, result, arena,
          snapshot, arenaAtStart, reads, parses, ncalls, log>>

parserVars == <<files, configs, requested, pc, cfg, md, result, arena,
                snapshot, arenaAtStart, reads, parses, ncalls, log>>

-----------------------------------------------------------------------------
(* Bounds *)

\* extract_ast calls begun in one behaviour (arenas only grow)
MaxCalls == 2

\* ParseConfig values built in one behaviour
MaxConfigs == 1

-----------------------------------------------------------------------------
(* Flavor *)

CommonMark == "Flavor::CommonMark"
GitHub == "Flavor::GitHub"

Flavor == {CommonMark, GitHub}

\* Option<Flavor>
None == [tag |-> "None", val |-> "-"]
Some(f) == [tag |-> "Some", val |-> f]

\* the strings handed to from_string: the two recognised names, the display
\* name of GitHub, the string the test uses, and near misses
Names == {"CommonMark", "GitHub", "GitHub Flavored Markdown", "Unknown",
          "", "commonmark", "github", "GFM"}

\* a slip that gives GitHub the short name from_string accepts
as_string_short(f) ==
    CASE f = CommonMark -> "CommonMark"
      [] f = GitHub -> "GitHub"

\* a copy-and-paste slip: both arms return the same literal
as_string_same(f) ==
    CASE f = CommonMark -> "CommonMark"
      [] f = GitHub -> "CommonMark"

as_string(f) ==
    CASE f = CommonMark -> "CommonMark"
      [] f = GitHub -> "GitHub Flavored Markdown"

\* a slip that falls back to a default flavor for an unknown name
from_string_default(s) ==
    CASE s = "CommonMark" -> Some(CommonMark)
      [] s = "GitHub" -> Some(GitHub)
      [] OTHER -> Some(CommonMark)

from_string(s) ==
    CASE s = "CommonMark" -> Some(CommonMark)
      [] s = "GitHub" -> Some(GitHub)
      [] OTHER -> None

\* the boolean flags of comrak's three option groups
ExtensionFlags == {"table", "strikethrough", "autolink", "tagfilter",
                   "tasklist", "superscript", "footnotes", "description_lists"}
ParseFlags == {"smart"}
RenderFlags == {"hardbreaks", "github_pre_lang", "gfm_quirks", "unsafe_", "escape"}

\* ComrakOptions::default(): every derived Default of a bool is false
ComrakOptions_default ==
    [extension |-> [x \in ExtensionFlags |-> FALSE],
     parse     |-> [x \in ParseFlags |-> FALSE],
     render    |-> [x \in RenderFlags |-> FALSE]]

\* a slip that leaves the task-list extension and the GFM quirks out
to_options_partial(f) ==
    CASE f = CommonMark -> ComrakOptions_default
      [] f = GitHub ->
            [ComrakOptions_default EXCEPT
                !.extension = [@ EXCEPT !["table"] = TRUE,
                                        !["strikethrough"] = TRUE,
                                        !["autolink"] = TRUE,
                                        !["tagfilter"] = TRUE],
                !.render = [@ EXCEPT !["github_pre_lang"] = TRUE]]

to_options(f) ==
    CASE f = CommonMark -> ComrakOptions_default
      [] f = GitHub ->
            [ComrakOptions_default EXCEPT
                !.extension = [@ EXCEPT !["table"] = TRUE,
                                        !["strikethrough"] = TRUE,
                                        !["autolink"] = TRUE,
                                        !["tagfilter"] = TRUE,
                                        !["tasklist"] = TRUE],
                !.render = [@ EXCEPT !["github_pre_lang"] = TRUE,
                                     !["gfm_quirks"] = TRUE]]

\* the flags an options value enables, as group.flag pairs
EnabledFlags(o) ==
    {<<"extension", x>> : x \in {y \in ExtensionFlags : o.extension[y]}}
    \cup {<<"parse", x>> : x \in {y \in ParseFlags : o.parse[y]}}
    \cup {<<"render", x>> : x \in {y \in RenderFlags : o.render[y]}}

-----------------------------------------------------------------------------
(* SpecRegistry: the Flavor methods applied to drawn inputs *)

\* reg before any method has been applied to the inputs f and s
RegStart(f, s) ==
    [f |-> f, s |-> s, done |-> {},
     name |-> "", parsed |-> None, opts |-> ComrakOptions_default, back |-> None]

RegIdle == RegStart(CommonMark, "")

CallAsString ==
    /\ "as_string" \notin reg.done
    /\ reg' = [reg EXCEPT !.name = as_string(reg.f),
                          !.done = @ \cup {"as_string"}]
    /\ UNCHANGED parserVars

CallFromString ==
    /\ "from_string" \notin reg.done
    /\ reg' = [reg EXCEPT !.parsed = from_string(reg.s),
                          !.done = @ \cup {"from_string"}]
    /\ UNCHANGED parserVars

CallToOptions ==
    /\ "to_options" \notin reg.done
    /\ reg' = [reg EXCEPT !.opts = to_options(reg.f),
                          !.done = @ \cup {"to_options"}]
    /\ UNCHANGED parserVars

\* Flavor::from_string(f.as_string())
CallRoundTrip ==
    /\ "round_trip" \notin reg.done
    /\ reg' = [reg EXCEPT !.back = from_string(as_string(reg.f)),
                          !.done = @ \cup {"round_trip"}]
    /\ UNCHANGED parserVars

RegInit ==
    /\ reg \in {RegStart(f, s) : f \in Flavor, s \in Names}

-----------------------------------------------------------------------------
(* The file system and std::fs::read_to_string *)

Paths == {"test.md", "notes.md"}

\* file contents that are valid text
Docs == {"# Heading\n\nSome content.", "~~gone~~"}

NoFile == [kind |-> "missing", data |-> ""]
NoPermission == [kind |-> "unreadable", data |-> ""]
NotUtf8 == [kind |-> "bytes", data |-> ""]
TextFile(d) == [kind |-> "text", data |-> d]

\* io::Result<String>
IoOk(s) == [tag |-> "Ok", text |-> s, kind |-> "-"]
IoErr(k) == [tag |-> "Err", text |-> "", kind |-> k]

\* a slip that hides the cause: every failure becomes the same error
read_to_string_opaque(f) ==
    CASE f.kind = "text" -> IoOk(f.data)
      [] OTHER -> IoErr("Other")

\* fs::read_to_string on a file in state f
read_to_string(f) ==
    CASE f.kind = "missing" -> IoErr("NotFound")
      [] f.kind = "unreadable" -> IoErr("PermissionDenied")
      [] f.kind = "bytes" -> IoErr("InvalidData")
      [] f.kind = "text" -> IoOk(f.data)

-----------------------------------------------------------------------------
(* Trees, arenas and comrak's parse_document *)

Node(k, ch) == [kind |-> k, children |-> ch]
Leaf(k) == Node(k, <<>>)
NoTree == Leaf("-")

RECURSIVE Concat(_)
Concat(ss) == IF ss = <<>> THEN <<>> ELSE Head(ss) \o Concat(Tail(ss))

\* the nodes of a tree in the order they are allocated (preorder)
RECURSIVE Nodes(_)
Nodes(n) ==
    <<n.kind>> \o Concat([i \in 1..Len(n.children) |-> Nodes(n.children[i])])

\* the tree comrak builds for text under options
Tree(text, options) ==
    CASE text = "" -> Leaf("Document")
      [] text = "# Heading\n\nSome content." ->
            Node("Document", <<Node("Heading", <<Leaf("Text")>>),
                               Node("Paragraph", <<Leaf("Text")>>)>>)
      [] text = "~~gone~~" ->
            Node("Document",
                 <<Node("Paragraph",
                        IF options.extension["strikethrough"]
                        THEN <<Node("Strikethrough", <<Leaf("Text")>>)>>
                        ELSE <<Leaf("Text")>>)>>)

\* a slip in which the document root adopts the nodes already in the arena
parse_document_stale(a, text, options) ==
    LET tree == Tree(text, options)
        ast == Node("Document",
                    [i \in 1..Len(a) |-> Leaf(a[i])] \o tree.children)
    IN  [arena |-> a \o Nodes(tree), ast |-> ast]

\* parse_document(arena, text, options): the arena after the call and the root
parse_document(a, text, options) ==
    LET tree == Tree(text, options)
    IN  [arena |-> a \o Nodes(tree), ast |-> tree]

-----------------------------------------------------------------------------
(* ParseConfig and extract_ast *)

\* a slip that ignores the flavor when resolving the options
ParseConfig_new_default(file_path, flavor) ==
    [options |-> ComrakOptions_default, flavor |-> flavor, file_path |-> file_path]

ParseConfig_new(file_path, flavor) ==
    [options |-> to_options(flavor), flavor |-> flavor, file_path |-> file_path]

Threads == {"t1", "t2"}

\* Result<&AstNode, Error>
NoResult == [tag |-> "-", ast |-> NoTree, kind |-> "-"]
Ok(ast) == [tag |-> "Ok", ast |-> ast, kind |-> "-"]
Err(k) == [tag |-> "Err", ast |-> NoTree, kind |-> k]

ParserInit ==
    /\ files \in [Paths -> {NoFile, NoPermission, NotUtf8}]
    /\ configs = <<>>
    /\ requested = <<>>
    /\ pc = [t \in Threads |-> "idle"]
    /\ cfg = [t \in Threads |-> 0]
    /\ md = [t \in Threads |-> ""]
    /\ result = [t \in Threads |-> NoResult]
    /\ arena = [t \in Threads |-> <<>>]
    /\ snapshot = [t \in Threads |-> NoFile]
    /\ arenaAtStart = [t \in Threads |-> <<>>]
    /\ reads = [t \in Threads |-> 0]
    /\ parses = [t \in Threads |-> 0]
    /\ ncalls = 0
    /\ log = EmptyBag

\* std::fs::write(path, contents) with contents a string
WriteFile(p, d) ==
    /\ files[p].kind # "unreadable"
    /\ files' = [files EXCEPT ![p] = TextFile(d)]
    /\ UNCHANGED <<reg, configs, requested, pc, cfg, md, result, arena,
                   snapshot, arenaAtStart, reads, parses, ncalls, log>>

\* std::fs::remove_file(path)
RemoveFile(p) ==
    /\ files[p].kind # "missing"
    /\ files' = [files EXCEPT ![p] = NoFile]
    /\ UNCHANGED <<reg, configs, requested, pc, cfg, md, result, arena,
                   snapshot, arenaAtStart, reads, parses, ncalls, log>>

\* let config = ParseConfig::new(path, flavor)
New(p, f) ==
    /\ Len(configs) < MaxConfigs
    /\ configs' = Append(configs, ParseConfig_new(p, f))
    /\ requested' = Append(requested, [file_path |-> p, flavor |-> f])
    /\ UNCHANGED <<reg, files, pc, cfg, md, result, arena,
                   snapshot, arenaAtStart, reads, parses, ncalls, log>>

\* a slip that reads with unwrap_or_default(): a failed read parses ""
Call_unwrap_or_default(t, i) ==
    /\ pc[t] = "idle"
    /\ ncalls < MaxCalls
    /\ i \in 1..Len(configs)
    /\ cfg' = [cfg EXCEPT ![t] = i]
    /\ ncalls' = ncalls + 1
    /\ LET f == files[configs[i].file_path]
           r == read_to_string(f)
       IN  /\ snapshot' = [snapshot EXCEPT ![t] = f]
           /\ reads' = [reads EXCEPT ![t] = @ + 1]
           /\ md' = [md EXCEPT ![t] = r.text]
           /\ pc' = [pc EXCEPT ![t] = "parse"]
           /\ result' = result
    /\ UNCHANGED <<reg, files, configs, requested, arena,
                   arenaAtStart, parses, log>>

\* a slip that takes the file: it is removed once it has been read
Call_consume(t, i) ==
    /\ pc[t] = "idle"
    /\ ncalls < MaxCalls
    /\ i \in 1..Len(configs)
    /\ cfg' = [cfg EXCEPT ![t] = i]
    /\ ncalls' = ncalls + 1
    /\ LET f == files[configs[i].file_path]
           r == read_to_string(f)
       IN  /\ snapshot' = [snapshot EXCEPT ![t] = f]
           /\ reads' = [reads EXCEPT ![t] = @ + 1]
           /\ IF r.tag = "Err"
              THEN /\ result' = [result EXCEPT ![t] = Err(r.kind)]
                   /\ pc' = [pc EXCEPT ![t] = "done"]
                   /\ md' = md
              ELSE /\ md' = [md EXCEPT ![t] = r.text]
                   /\ pc' = [pc EXCEPT ![t] = "parse"]
                   /\ result' = result
    /\ files' = [files EXCEPT ![configs[i].file_path] =
                        IF @.kind = "text" THEN NoFile ELSE @]
    /\ UNCHANGED <<reg, configs, requested, arena,
                   arenaAtStart, parses, log>>

\* thread t calls extract_ast(&configs[i], &arena[t]) and runs it up to
\* let md = fs::read_to_string(&config.file_path)?;
Call(t, i) ==
    /\ pc[t] = "idle"
    /\ ncalls < MaxCalls
    /\ i \in 1..Len(configs)
    /\ cfg' = [cfg EXCEPT ![t] = i]
    /\ ncalls' = ncalls + 1
    /\ LET f == files[configs[i].file_path]
           r == read_to_string(f)
       IN  /\ snapshot' = [snapshot EXCEPT ![t] = f]
           /\ reads' = [reads EXCEPT ![t] = @ + 1]
           /\ IF r.tag = "Err"
              THEN /\ result' = [result EXCEPT ![t] = Err(r.kind)]
                   /\ pc' = [pc EXCEPT ![t] = "done"]
                   /\ md' = md
              ELSE /\ md' = [md EXCEPT ![t] = r.text]
                   /\ pc' = [pc EXCEPT ![t] = "parse"]
                   /\ result' = result
    /\ UNCHANGED <<reg, files, configs, requested, arena,
                   arenaAtStart, parses, log>>

\* a slip that parses the file as it is now, not the text that was read
Parse_reread(t) ==
    /\ pc[t] = "parse"
    /\ LET c == configs[cfg[t]]
           now == files[c.file_path]
           out == parse_document(arena[t],
                                 IF now.kind = "text" THEN now.data ELSE md[t],
                                 c.options)
       IN  /\ arena' = [arena EXCEPT ![t] = out.arena]
           /\ result' = [result EXCEPT ![t] = Ok(out.ast)]
           /\ log' = log (+) SetToBag({[flavor |-> c.flavor, content |-> md[t],
                                         tree |-> out.ast]})
    /\ parses' = [parses EXCEPT ![t] = @ + 1]
    /\ pc' = [pc EXCEPT ![t] = "done"]
    /\ UNCHANGED <<reg, files, configs, requested, cfg, md,
                   snapshot, arenaAtStart, reads, ncalls>>

\* let ast = parse_document(arena, &md, &config.options); Ok(ast)
Parse(t) ==
    /\ pc[t] = "parse"
    /\ LET c == configs[cfg[t]]
           out == parse_document(arena[t], md[t], c.options)
       IN  /\ arena' = [arena EXCEPT ![t] = out.arena]
           /\ result' = [result EXCEPT ![t] = Ok(out.ast)]
           /\ log' = log (+) SetToBag({[flavor |-> c.flavor, content |-> md[t],
                                         tree |-> out.ast]})
    /\ parses' = [parses EXCEPT ![t] = @ + 1]
    /\ pc' = [pc EXCEPT ![t] = "done"]
    /\ UNCHANGED <<reg, files, configs, requested, cfg, md,
                   snapshot, arenaAtStart, reads, ncalls>>

\* the caller takes the result; the locals of the call are gone
Return(t) ==
    /\ pc[t] = "done"
    /\ pc' = [pc EXCEPT ![t] = "idle"]
    /\ cfg' = [cfg EXCEPT ![t] = 0]
    /\ md' = [md EXCEPT ![t] = ""]
    /\ result' = [result EXCEPT ![t] = NoResult]
    /\ snapshot' = [snapshot EXCEPT ![t] = NoFile]
    /\ arenaAtStart' = [arenaAtStart EXCEPT ![t] = arena[t]]
    /\ reads' = [reads EXCEPT ![t] = 0]
    /\ parses' = [parses EXCEPT ![t] = 0]
    /\ UNCHANGED <<reg, files, configs, requested, arena, ncalls, log>>

-----------------------------------------------------------------------------
(* Specifications *)

Init == reg = RegIdle /\ ParserInit

Next ==
    \/ \E p \in Paths, d \in Docs : WriteFile(p, d)
    \/ \E p \in Paths : RemoveFile(p)
    \/ \E p \in Paths, f \in Flavor : New(p, f)
    \/ \E t \in Threads, i \in 1..MaxConfigs : Call(t, i)
    \/ \E t \in Threads : Parse(t)
    \/ \E t \in Threads : Return(t)

Spec == Init /\ [][Next]_vars

InitRegistry == RegInit /\ ParserInit /\ files = [p \in Paths |-> NoFile]

NextRegistry ==
    \/ CallAsString
    \/ CallFromString
    \/ CallToOptions
    \/ CallRoundTrip

SpecRegistry == InitRegistry /\ [][NextRegistry]_vars

-----------------------------------------------------------------------------
(* Claims about the Flavor methods, checked under SpecRegistry *)

\* C1 as stated: for every flavor f, from_string(as_string(f)) = Some(f).
C1_RoundTripEveryFlavor ==
    "round_trip" \in reg.done => reg.back = Some(reg.f)

\* C1 as amended: the round trip from_string(as_string(f)) gives Some(f) for
\* CommonMark only; for GitHub, as_string gives the display name, which
\* from_string does not recognise, and the round trip gives None.
C1_RoundTripCommonMarkOnly ==
    "round_trip" \in reg.done =>
        /\ reg.f = CommonMark => reg.back = Some(CommonMark)
        /\ reg.f = GitHub => reg.back = None

C1_Witness ==
    /\ "round_trip" \in reg.done
    /\ reg.f = GitHub
    /\ reg.back = None

\* C2: from_string gives Some(CommonMark) for "CommonMark", Some(GitHub) for
\* "GitHub", and None (no default flavor, no error) for every other string.
C2_FromStringExact ==
    "from_string" \in reg.done =>
        /\ reg.s = "CommonMark" => reg.parsed = Some(CommonMark)
        /\ reg.s = "GitHub" => reg.parsed = Some(GitHub)
        /\ reg.s \notin {"CommonMark", "GitHub"} => reg.parsed = None
        /\ reg.parsed.tag \in {"Some", "None"}

C2_Witness ==
    /\ "from_string" \in reg.done
    /\ reg.s = "GitHub Flavored Markdown"
    /\ reg.parsed = None

\* the flags to_options is said to enable for GitHub
GitHubFlags ==
    {<<"extension", "table">>, <<"extension", "strikethrough">>,
     <<"extension", "autolink">>, <<"extension", "tagfilter">>,
     <<"extension", "tasklist">>, <<"render", "github_pre_lang">>,
     <<"render", "gfm_quirks">>}

\* C3: to_options gives, for CommonMark, the baseline with every flag
\* disabled, and for GitHub exactly table, strikethrough, autolink, tagfilter,
\* tasklist, github_pre_lang and gfm_quirks enabled on that baseline: a strict
\* superset of what CommonMark enables.
C3_ToOptions ==
    "to_options" \in reg.done =>
        /\ reg.f = CommonMark =>
              /\ EnabledFlags(reg.opts) = {}
              /\ reg.opts = ComrakOptions_default
        /\ reg.f = GitHub =>
              /\ EnabledFlags(reg.opts) = GitHubFlags
              /\ EnabledFlags(ComrakOptions_default) \subseteq EnabledFlags(reg.opts)
              /\ EnabledFlags(ComrakOptions_default) # EnabledFlags(reg.opts)

C3_Witness ==
    /\ "to_options" \in reg.done
    /\ reg.f = GitHub
    /\ reg.opts.extension["tasklist"]
    /\ reg.opts.render["gfm_quirks"]
    /\ ~reg.opts.extension["footnotes"]

\* C9: as_string gives "CommonMark" for CommonMark and "GitHub Flavored
\* Markdown" for GitHub, and no other flavor has the name it gives.
C9_AsStringNames ==
    "as_string" \in reg.done =>
        /\ reg.f = CommonMark => reg.name = "CommonMark"
        /\ reg.f = GitHub => reg.name = "GitHub Flavored Markdown"
        /\ \A g \in Flavor \ {reg.f} : as_string(g) # reg.name

C9_Witness ==
    /\ "as_string" \in reg.done
    /\ reg.f = GitHub
    /\ reg.name = "GitHub Flavored Markdown"

-----------------------------------------------------------------------------
(* Claims about ParseConfig and extract_ast, checked under Spec *)

\* what a call returns when it runs alone on a file in state f
Alone(f, options) ==
    CASE f.kind = "missing" -> Err("NotFound")
      [] f.kind = "unreadable" -> Err("PermissionDenied")
      [] f.kind = "bytes" -> Err("InvalidData")
      [] f.kind = "text" -> Ok(Tree(f.data, options))

\* C4: a call whose file is missing or unreadable ends with an error and no
\* tree; parse_document was not invoked and the arena holds what it held when
\* the call began.
C4_NoTreeOnIoError ==
    \A t \in Threads :
        (pc[t] = "done" /\ snapshot[t].kind \in {"missing", "unreadable"}) =>
            /\ result[t].tag = "Err"
            /\ result[t].ast = NoTree
            /\ parses[t] = 0
            /\ arena[t] = arenaAtStart[t]

C4_Witness ==
    \E t \in Threads :
        /\ pc[t] = "done"
        /\ snapshot[t].kind = "missing"
        /\ result[t] = Err("NotFound")
        /\ arena[t] # <<>>

\* C5: a finished call has returned a tree, a file-access failure or a
\* decoding failure; the two failures have different error kinds, neither
\* carries a tree, and the call read the file once and no more.
C5_ThreeOutcomes ==
    \A t \in Threads :
        /\ reads[t] <= 1
        /\ pc[t] = "done" =>
              /\ reads[t] = 1
              /\ snapshot[t].kind = "text" =>
                    result[t].tag = "Ok" /\ result[t].ast # NoTree
              /\ snapshot[t].kind = "missing" => result[t] = Err("NotFound")
              /\ snapshot[t].kind = "unreadable" =>
                    result[t] = Err("PermissionDenied")
              /\ snapshot[t].kind = "bytes" => result[t] = Err("InvalidData")
              /\ result[t].tag = "Err" => result[t].ast = NoTree

C5_Witness ==
    \E t, u \in Threads :
        /\ pc[t] = "done" /\ pc[u] = "done"
        /\ result[t] = Err("InvalidData")
        /\ result[u] = Err("NotFound")

C7_Frame ==
    [][(\E t \in Threads : pc'[t] # pc[t]) =>
            /\ files' = files
            /\ configs' = configs
            /\ reg' = reg]_vars

C7_Witness ==
    \E t \in Threads, p \in Paths :
        /\ pc[t] = "done"
        /\ result[t].tag = "Ok"
        /\ files[configs[cfg[t]].file_path].kind = "text"
        /\ p # configs[cfg[t]].file_path
        /\ files[p].kind = "text"

\* C8: under every interleaving a thread's arena holds what it held when its
\* call began plus the nodes of its own tree, and a finished call returned
\* what a call running alone returns on the file state its read saw.
C8_Isolated ==
    \A t \in Threads :
        /\ pc[t] \in {"idle", "parse"} => arena[t] = arenaAtStart[t]
        /\ pc[t] = "done" =>
              /\ result[t] = Alone(snapshot[t], configs[cfg[t]].options)
              /\ arena[t] = arenaAtStart[t] \o
                    (IF result[t].tag = "Ok" THEN Nodes(result[t].ast) ELSE <<>>)

\* two calls share one ParseConfig, one is between its read and its parse,
\* and the file it read has changed since
C8_Witness ==
    \E t, u \in Threads :
        /\ t # u
        /\ cfg[t] = cfg[u]
        /\ pc[t] = "parse"
        /\ pc[u] = "done"
        /\ result[u].tag = "Ok"
        /\ files[configs[cfg[t]].file_path] # snapshot[t]

\* C10: every ParseConfig holds the path and flavor ParseConfig::new was
\* given and the options of that flavor, at every moment of its life, and a
\* successful call returned the tree of its text under those options.
C10_ConfigAgrees ==
    /\ Len(requested) = Len(configs)
    /\ \A i \in 1..Len(configs) :
          /\ configs[i].file_path = requested[i].file_path
          /\ configs[i].flavor = requested[i].flavor
          /\ configs[i].options = to_options(configs[i].flavor)
    /\ \A t \in Threads :
          (pc[t] = "done" /\ result[t].tag = "Ok") =>
              result[t].ast = Tree(md[t], to_options(requested[cfg[t]].flavor))

C10_Witness ==
    \E t \in Threads :
        /\ pc[t] = "done"
        /\ configs[cfg[t]].flavor = GitHub
        /\ md[t] = "~~gone~~"
        /\ result[t].ast.children[1].children[1].kind = "Strikethrough"

====
